---------------------------- MODULE Spec2Model ----------------------------
(***************************************************************************)
(* Model of emotion-bench: the leakage detector (emotion_bench/analyzer),  *)
(* the result collector and reporter (tests/benchmark_results), the test   *)
(* driver (tests/test_emotions), the session hooks (tests/conftest) and    *)
(* the cost estimator (estimate_cost).                                     *)
(*                                                                         *)
(* Text is a sequence of Unicode code points.  A Python "str | None" value *)
(* is a record [is_none, text].                                            *)
(***************************************************************************)
EXTENDS Integers, Sequences, FiniteSets, TLC

(* ------------------------------ bounds -------------------------------- *)
MaxTextLen == 3
MaxTagLen == 2
\* results a collector receives through its whole interface
MaxAdds == 3
\* length of the result lists whose summary is ranked
MaxRanked == 6
\* length of the result lists that are appended in two orders
MaxShuffled == 3
\* NUM_RUNS, phrases per emotion, runs of a whole session
MaxRuns == 2
MaxPhrases == 1
MaxSessionRuns == 4

MaxAudioPhrases == 11

MaxAudioRuns == 11

(* ------------------------------- text --------------------------------- *)
None == [is_none |-> TRUE, text |-> <<>>]

Str(s) == [is_none |-> FALSE, text |-> s]

\* code points of the literal characters of the source: ( ) space '
LPAREN == 40
RPAREN == 41
SPACE == 32
QUOTE == 39

\* the characters texts are drawn from: ( ) space - A a b
Alphabet == {LPAREN, RPAREN, SPACE} \cup {45, 65, 97, 98}

SeqsUpTo(S, n) == UNION {[1..k -> S] : k \in 0..n}

\* str.lower() on one code point (ASCII range)
LowerChar(c) == IF c >= 65 /\ c <= 90 THEN c + 32 ELSE c

Lower(s) == [i \in 1..Len(s) |-> LowerChar(s[i])]

\* the regex class \w: letter, digit, underscore
IsWordChar(c) ==
    \/ c >= 97 /\ c <= 122
    \/ c >= 65 /\ c <= 90
    \/ c >= 48 /\ c <= 57
    \/ c = 95

\* needle occurs in hay starting right after offset p (0-based)
OccursAt(hay, needle, p) ==
    /\ p + Len(needle) <= Len(hay)
    /\ \A i \in 1..Len(needle) : hay[p + i] = needle[i]

\* Python's "needle in hay"
Contains(hay, needle) == \E p \in 0..Len(hay) : OccursAt(hay, needle, p)

\* the regex assertion \b at offset p: exactly one side is a word character
WordBoundary(s, p) ==
    LET before == p >= 1 /\ IsWordChar(s[p])
        after == p < Len(s) /\ IsWordChar(s[p + 1])
    IN before # after

\* re.search(r"\b" + re.escape(word) + r"\b", s)
SearchWholeWord(s, word) ==
    \E p \in 0..Len(s) :
        /\ WordBoundary(s, p)
        /\ OccursAt(s, word, p)
        /\ WordBoundary(s, p + Len(word))

\* f"({emotion})"
Parenthesized(e) == <<LPAREN>> \o e \o <<RPAREN>>

contains_emotion_tag(transcription, emotion) ==
    IF transcription.is_none \/ transcription.text = <<>>
    THEN FALSE
    ELSE LET text_lower == Lower(transcription.text)
             emotion_lower == Lower(emotion)
         IN IF Contains(text_lower, Parenthesized(emotion_lower))
            THEN TRUE
            ELSE SearchWholeWord(text_lower, emotion_lower)

(* ----------------------- result collector (pure) ---------------------- *)
Statuses == {"PASS", "FAIL", "ERROR"}

\* a Python dict with no keys
EmptyDict == <<>>

\* the number of decimal places kept by round(x, 2) and the list slice [:5]
RoundDigits == 2
TopN == 5

BenchmarkResult(emotion, voice, phrase_idx, phrase, run_number, category, status, transcription, error) ==
    [emotion |-> emotion, voice |-> voice, phrase_idx |-> phrase_idx,
     phrase |-> phrase, run_number |-> run_number, category |-> category,
     status |-> status, transcription |-> transcription, error |-> error]

\* a count that skips the first result
CountStatus_skip_first(rs, st) == Cardinality({i \in 2..Len(rs) : rs[i].status = st})

\* sum(1 for r in results if r.status == st)
CountStatus(rs, st) == Cardinality({i \in 1..Len(rs) : rs[i].status = st})

\* num / den * 100 rounded to `digits` decimal places, as an integer number
\* of 10^-digits; a value exactly halfway goes to the even neighbour
RoundPercent(num, den, digits) ==
    LET scaled == num * 100 * (10 ^ digits)
        q == scaled \div den
        r == scaled % den
    IN IF 2 * r < den THEN q
       ELSE IF 2 * r > den THEN q + 1
       ELSE IF q % 2 = 0 THEN q ELSE q + 1

\* round(num / den * 100, 2), in hundredths
RoundRate(num, den) == RoundPercent(num, den, RoundDigits)

\* keys of emotion_stats in dict insertion order: emotions as first seen
RECURSIVE EmotionOrder(_)
EmotionOrder(rs) ==
    IF rs = <<>> THEN <<>>
    ELSE LET prev == EmotionOrder(SubSeq(rs, 1, Len(rs) - 1))
             e == rs[Len(rs)].emotion
         IN IF \E i \in 1..Len(prev) : prev[i] = e THEN prev ELSE Append(prev, e)

\* emotion_stats[e] as {"pass", "fail", "error"} counts
EmotionStats(rs, e) ==
    LET of(st) == Cardinality({i \in 1..Len(rs) : rs[i].emotion = e /\ rs[i].status = st})
    IN [pass |-> of("PASS"), fail |-> of("FAIL"), error |-> of("ERROR")]

\* emotion_success_rates.items(): (emotion, pass / total * 100) pairs, the
\* rate kept exact as the fraction pass / total
EmotionSuccessRates(rs) ==
    LET order == EmotionOrder(rs)
    IN [i \in 1..Len(order) |->
          LET stats == EmotionStats(rs, order[i])
          IN [emotion |-> order[i], pass |-> stats.pass,
              total |-> stats.pass + stats.fail + stats.error]]

\* comparison of the sort keys x[1] of two items
RateLess(a, b) == a.pass * b.total < b.pass * a.total

\* sorted(items, key=rate): stable, ascending
RECURSIVE SortedAscending(_)
SortedAscending(items) ==
    IF items = <<>> THEN <<>>
    ELSE LET prev == SortedAscending(SubSeq(items, 1, Len(items) - 1))
             x == items[Len(items)]
             k == Cardinality({i \in 1..Len(prev) : ~RateLess(x, prev[i])})
         IN SubSeq(prev, 1, k) \o <<x>> \o SubSeq(prev, k + 1, Len(prev))

\* a descending sort obtained by reversing the ascending one: equal keys
\* come out in reverse order
SortedDescending_reversed(items) ==
    LET asc == SortedAscending(items)
    IN [i \in 1..Len(asc) |-> asc[Len(asc) + 1 - i]]

\* no sort at all: the items in dict order
SortedDescending_unsorted(items) == items

\* sorted(items, key=rate, reverse=True): descending, equal keys keep their
\* original order
RECURSIVE SortedDescending(_)
SortedDescending(items) ==
    IF items = <<>> THEN <<>>
    ELSE LET prev == SortedDescending(SubSeq(items, 1, Len(items) - 1))
             x == items[Len(items)]
             k == Cardinality({i \in 1..Len(prev) : ~RateLess(prev[i], x)})
         IN SubSeq(prev, 1, k) \o <<x>> \o SubSeq(prev, k + 1, Len(prev))

\* the slice [:5]
Top(items) == SubSeq(items, 1, IF Len(items) < TopN THEN Len(items) ELSE TopN)

\* [{"emotion": e, "success_rate": round(r, 2)} for e, r in items]
Rounded(items) ==
    [i \in 1..Len(items) |->
       [emotion |-> items[i].emotion,
        success_rate |-> RoundRate(items[i].pass, items[i].total)]]

get_summary(rs) ==
    IF rs = <<>> THEN EmptyDict
    ELSE LET total_tests == Len(rs)
             pass_count == CountStatus(rs, "PASS")
             rates == EmotionSuccessRates(rs)
         IN [total_tests |-> total_tests,
             pass_count |-> pass_count,
             fail_count |-> CountStatus(rs, "FAIL"),
             error_count |-> CountStatus(rs, "ERROR"),
             success_rate |-> RoundRate(pass_count, total_tests),
             best_emotions |-> Rounded(Top(SortedDescending(rates))),
             worst_emotions |-> Rounded(Top(SortedAscending(rates)))]

(* --------------------------- reporter (pure) -------------------------- *)
\* a path at which nothing has been written
NoFile == [exists |-> FALSE]

\* the document json.dump writes in save_results
JsonDocument(rs) == [exists |-> TRUE, results |-> rs, summary |-> get_summary(rs)]

\* lexicographic order of str
LexLess(a, b) ==
    \E k \in 1..(Len(b)) :
        /\ \A i \in 1..(k - 1) : i <= Len(a) /\ a[i] = b[i]
        /\ \/ k = Len(a) + 1
           \/ k <= Len(a) /\ a[k] < b[k]

\* sorted(emotion_groups.items()): the emotions in name order
RECURSIVE SortedByName(_)
SortedByName(names) ==
    IF names = <<>> THEN <<>>
    ELSE LET prev == SortedByName(SubSeq(names, 1, Len(names) - 1))
             x == names[Len(names)]
             k == Cardinality({i \in 1..Len(prev) : ~LexLess(x, prev[i])})
         IN SubSeq(prev, 1, k) \o <<x>> \o SubSeq(prev, k + 1, Len(prev))

\* the digits f"{success_rate:.1f}" keeps
TableDigits == 1

\* one row of the per-emotion table; success_rate in tenths
EmotionRow(rs, e) ==
    LET stats == EmotionStats(rs, e)
        total == stats.pass + stats.fail + stats.error
        first == CHOOSE i \in 1..Len(rs) :
                    /\ rs[i].emotion = e
                    /\ \A j \in 1..(i - 1) : rs[j].emotion # e
    IN [emotion |-> e, category |-> rs[first].category, voice |-> rs[first].voice,
        success_rate |-> RoundPercent(stats.pass, total, TableDigits),
        pass |-> stats.pass, fail |-> stats.fail, error |-> stats.error,
        total |-> total]

\* emotion_table.sort(key=float(x[3].rstrip("%")), reverse=True)
RECURSIVE SortedRows(_)
SortedRows(rows) ==
    IF rows = <<>> THEN <<>>
    ELSE LET prev == SortedRows(SubSeq(rows, 1, Len(rows) - 1))
             x == rows[Len(rows)]
             k == Cardinality({i \in 1..Len(prev) : prev[i].success_rate >= x.success_rate})
         IN SubSeq(prev, 1, k) \o <<x>> \o SubSeq(prev, k + 1, Len(prev))

EmotionTable(rs) ==
    LET names == SortedByName(EmotionOrder(rs))
    IN SortedRows([i \in 1..Len(names) |-> EmotionRow(rs, names[i])])

\* what save_markdown_summary renders: the header and best/worst tables
\* (from the summary) and the per-emotion table; the text layout is not kept
MarkdownDocument(rs) ==
    [exists |-> TRUE, summary |-> get_summary(rs), emotion_table |-> EmotionTable(rs)]

(* ------------------- catalog, roster, test items (pure) --------------- *)
\* REFERENCE_IDS, the configured voice model ids
REFERENCE_IDS == <<"802e3bc2b27e49c2995d23ef70e6ac89", "b545c585f631496c914815291da4e893", "8ba9b8b845e342da9d511d4e0c2ff733">>

\* the reference id None
NoReference == "None"

get_reference_ids(include_no_reference) ==
    IF include_no_reference THEN <<NoReference>> ELSE REFERENCE_IDS

\* voice_label = reference_id if reference_id else "default"
VoiceLabel(reference_id) ==
    IF reference_id = NoReference THEN "default" ELSE reference_id

\* ALL_EMOTIONS and EMOTION_CATEGORIES as one ordered list of
\* [emotion, category, phrases]; get_all_emotions flattens it
RECURSIVE get_all_emotions(_)
get_all_emotions(catalog) ==
    IF catalog = <<>> THEN <<>>
    ELSE LET entry == catalog[Len(catalog)]
         IN get_all_emotions(SubSeq(catalog, 1, Len(catalog) - 1))
            \o [idx \in 1..Len(entry.phrases) |->
                  [emotion |-> entry.emotion, phrase |-> entry.phrases[idx],
                   phrase_idx |-> idx, category |-> entry.category]]

\* the parametrized test items in collection order: reference_id varies
\* fastest, then the (emotion, phrase) tuples
TestItems(catalog, roster) ==
    LET tuples == get_all_emotions(catalog)
        nv == Len(roster)
    IN [k \in 1..(Len(tuples) * nv) |->
          LET t == tuples[((k - 1) \div nv) + 1]
          IN [emotion |-> t.emotion, phrase |-> t.phrase, phrase_idx |-> t.phrase_idx,
              category |-> t.category, reference_id |-> roster[((k - 1) % nv) + 1]]]

\* f"({emotion}) {phrase}"
TextWithEmotion(emotion, phrase) == Parenthesized(emotion) \o <<SPACE>> \o phrase

\* the catalogs a session is run on: emotions "a" and "b", each with up to
\* n phrases taken from `phrases`
Catalogs(phrases, n) ==
    {<<[emotion |-> <<97>>, category |-> "basic_emotions", phrases |-> pa],
       [emotion |-> <<98>>, category |-> "advanced_emotions", phrases |-> pb]>> :
        pa \in SeqsUpTo(phrases, n), pb \in SeqsUpTo(phrases, n)}

(* --------------------------- catalog load (pure) ---------------------- *)
\* the category names _load_emotions reads, in its order
CategoryNames ==
    <<"basic_emotions", "advanced_emotions", "tone_and_special_markers",
      "unofficial_emotions", "unofficial_markers">>

\* a top-level key of the document: not there, there with no value (null),
\* or there with a mapping emotion -> phrase list (in document order)
AbsentKey == [kind |-> "absent", entries |-> <<>>]

NullKey == [kind |-> "null", entries |-> <<>>]

MappingKey(entries) == [kind |-> "mapping", entries |-> entries]

\* all_emotions.update(category_data) with emotion_to_category[emotion] =
\* category_name: a known emotion keeps its place and takes the new phrases
\* and category, a new one is appended
RECURSIVE UpdateEntries(_, _, _)
UpdateEntries(all, category_name, entries) ==
    IF entries = <<>> THEN all
    ELSE LET e == Head(entries)
             new == [emotion |-> e.emotion, category |-> category_name, phrases |-> e.phrases]
             merged == IF \E i \in 1..Len(all) : all[i].emotion = e.emotion
                       THEN [i \in 1..Len(all) |->
                               IF all[i].emotion = e.emotion THEN new ELSE all[i]]
                       ELSE Append(all, new)
         IN UpdateEntries(merged, category_name, Tail(entries))

\* the loop over the category names: data.get(category_name, {}) and the
\* update; update(None) raises TypeError
RECURSIVE LoadCategories(_, _, _)
LoadCategories(data, names, all) ==
    IF names = <<>> THEN [raised |-> "none", all_emotions |-> all]
    ELSE LET category_name == Head(names)
             category_data == IF category_name \in DOMAIN data
                              THEN data[category_name] ELSE AbsentKey
         IN IF category_data.kind = "null"
            THEN [raised |-> "TypeError", all_emotions |-> <<>>]
            ELSE LoadCategories(data, Tail(names),
                                UpdateEntries(all, category_name, category_data.entries))

\* _load_emotions on the file: open() raises when it is missing, safe_load
\* raises on text that is not YAML and returns None for an empty document
\* (None.get raises AttributeError); nothing looks at the phrase lists
load_emotions(file) ==
    CASE file.kind = "missing" -> [raised |-> "FileNotFoundError", all_emotions |-> <<>>]
      [] file.kind = "syntax_error" -> [raised |-> "YAMLError", all_emotions |-> <<>>]
      [] file.kind = "null" -> [raised |-> "AttributeError", all_emotions |-> <<>>]
      [] OTHER -> LoadCategories(file.data, CategoryNames, <<>>)

(* --------------------------- test driver (pure) ----------------------- *)
\* "Tag leaked: '"
TagLeakedPrefix == <<84, 97, 103, 32, 108, 101, 97, 107, 101, 100, 58, 32, QUOTE>>

\* str(e) of the exception a step raises
ExceptionText(step) == <<101, 114, 114>>

\* what one run can meet: an exception in generate_speech, in the audio file
\* write or in transcribe_audio, or a transcription (None, "", a clean text,
\* the tag in parentheses)
Outcomes(emotion) ==
    {[raises |-> step, text |-> None] : step \in {"tts", "write", "stt"}}
    \cup {[raises |-> "none", text |-> t] :
            t \in {None, Str(<<>>), Str(<<104, 105>>), Str(Parenthesized(emotion))}}

\* the characters of a voice label: "default" or one of REFERENCE_IDS
LabelText(voice_label) ==
    CASE voice_label = "default" -> <<100, 101, 102, 97, 117, 108, 116>>
      [] voice_label = REFERENCE_IDS[1] ->
           <<56, 48, 50, 101, 51, 98, 99, 50, 98, 50, 55, 101, 52, 57, 99, 50,
             57, 57, 53, 100, 50, 51, 101, 102, 55, 48, 101, 54, 97, 99, 56, 57>>
      [] voice_label = REFERENCE_IDS[2] ->
           <<98, 53, 52, 53, 99, 53, 56, 53, 102, 54, 51, 49, 52, 57, 54, 99,
             57, 49, 52, 56, 49, 53, 50, 57, 49, 100, 97, 52, 101, 56, 57, 51>>
      [] voice_label = REFERENCE_IDS[3] ->
           <<56, 98, 97, 57, 98, 56, 98, 56, 52, 53, 101, 51, 52, 50, 100, 97,
             57, 100, 53, 49, 49, 100, 52, 101, 48, 99, 50, 102, 102, 55, 51, 51>>

\* str(n) of a natural number, as the f-string formats it
RECURSIVE Decimal(_)
Decimal(n) ==
    IF n < 10 THEN <<48 + n>> ELSE Decimal(n \div 10) \o <<48 + (n % 10)>>

SLASH == 47

UNDERSCORE == 95

\* "output/audio"
AudioRoot == <<111, 117, 116, 112, 117, 116, 47, 97, 117, 100, 105, 111>>

\* "_run"
RunInfix == <<95, 114, 117, 110>>

\* ".mp3"
Mp3Suffix == <<46, 109, 112, 51>>

\* the file name without the run number, whatever NUM_RUNS is
AudioFile_no_run(item, run, runs) ==
    AudioRoot \o <<SLASH>> \o item.emotion \o <<SLASH>>
    \o LabelText(VoiceLabel(item.reference_id)) \o <<UNDERSCORE>>
    \o Decimal(item.phrase_idx) \o Mp3Suffix

\* the audio file of one run (run is the 0-based loop variable):
\* output/audio/<emotion>/<voice_label>_<phrase_idx>.mp3, with _run<run + 1>
\* before the suffix when NUM_RUNS > 1
AudioFile(item, run, runs) ==
    AudioRoot \o <<SLASH>> \o item.emotion \o <<SLASH>>
    \o LabelText(VoiceLabel(item.reference_id)) \o <<UNDERSCORE>>
    \o Decimal(item.phrase_idx)
    \o (IF runs > 1 THEN RunInfix \o Decimal(run + 1) ELSE <<>>)
    \o Mp3Suffix

\* the keyword arguments of the add_result call that ends one iteration of
\* the loop over runs (run is the 0-based loop variable)
IterationResult(item, run, o) ==
    LET raised == o.raises # "none"
        tag_found == ~raised /\ contains_emotion_tag(o.text, item.emotion)
    IN [emotion |-> item.emotion,
        voice |-> VoiceLabel(item.reference_id),
        phrase_idx |-> item.phrase_idx,
        phrase |-> item.phrase,
        run_number |-> run + 1,
        category |-> item.category,
        status |-> IF raised THEN "ERROR" ELSE IF tag_found THEN "FAIL" ELSE "PASS",
        transcription |-> IF raised THEN None ELSE o.text,
        error |-> IF raised THEN Str(ExceptionText(o.raises))
                  ELSE IF tag_found
                       THEN Str(TagLeakedPrefix \o o.text.text \o <<QUOTE>>)
                       ELSE None]

\* the parameters of BenchmarkCollector.add_result, none with a default
AddResultParams ==
    {"emotion", "voice", "phrase_idx", "phrase", "run_number", "category",
     "status", "transcription", "error"}

\* calling add_result(**kwargs) raises TypeError unless every parameter is given
RaisesTypeError(kwargs) == AddResultParams \ DOMAIN kwargs # {}

\* the dict a worker sends for one result (pytest_sessionfinish, worker side)
WorkerDict(r) ==
    [emotion |-> r.emotion, voice |-> r.voice, phrase_idx |-> r.phrase_idx,
     phrase |-> r.phrase, run_number |-> r.run_number, status |-> r.status,
     transcription |-> r.transcription, error |-> r.error]

\* the keyword arguments pytest_testnodedown passes to add_result
NodeDownKwargs(d) ==
    [emotion |-> d.emotion, voice |-> d.voice, phrase_idx |-> d.phrase_idx,
     phrase |-> d.phrase, run_number |-> d.run_number, status |-> d.status,
     transcription |-> d.transcription, error |-> d.error]

\* the results pytest_testnodedown has appended when its loop ends: all of
\* them, or those before the first call that raises
RECURSIVE AppendedBy(_)
AppendedBy(dicts) ==
    IF dicts = <<>> THEN <<>>
    ELSE IF RaisesTypeError(NodeDownKwargs(dicts[1])) THEN <<>>
    ELSE <<NodeDownKwargs(dicts[1])>> \o AppendedBy(Tail(dicts))

NodeDownRaises(dicts) ==
    \E i \in 1..Len(dicts) : RaisesTypeError(NodeDownKwargs(dicts[i]))

(* -------------------------- cost estimator (pure) --------------------- *)
\* Fish Audio TTS pricing per million UTF-8 bytes, and the million
COST_PER_MILLION_BYTES == 15
MILLION == 1000000

\* bytes of one code point in UTF-8
Utf8Width(c) ==
    IF c < 128 THEN 1 ELSE IF c < 2048 THEN 2 ELSE IF c < 65536 THEN 3 ELSE 4

\* the character count taken for the byte count
Utf8Len_chars(s) == Len(s)

\* len(s.encode("utf-8"))
RECURSIVE Utf8Len(_)
Utf8Len(s) == IF s = <<>> THEN 0 ELSE Utf8Width(Head(s)) + Utf8Len(Tail(s))

\* the totals accumulated by the loop over the (emotion, phrase) tuples
RECURSIVE AccumulateTotals(_)
AccumulateTotals(tuples) ==
    IF tuples = <<>> THEN [chars |-> 0, bytes |-> 0]
    ELSE LET rest == AccumulateTotals(Tail(tuples))
             text_with_emotion == TextWithEmotion(Head(tuples).emotion, Head(tuples).phrase)
         IN [chars |-> Len(text_with_emotion) + rest.chars,
             bytes |-> Utf8Len(text_with_emotion) + rest.bytes]

\* what estimate_cost computes; a float is kept as the exact fraction
\* num / den (the confidence margins, printed only, are not kept)
CostReport(cat, reference_ids, runs) ==
    LET emotion_phrases == get_all_emotions(cat)
        totals == AccumulateTotals(emotion_phrases)
        num_voices == Len(reference_ids)
        num_emotions == Cardinality({emotion_phrases[i].emotion : i \in 1..Len(emotion_phrases)})
    IN [total_chars |-> totals.chars,
        total_bytes |-> totals.bytes,
        total_api_calls |-> Len(emotion_phrases) * num_voices * runs,
        estimated_cost |->
            [num |-> totals.bytes * num_voices * runs * COST_PER_MILLION_BYTES,
             den |-> MILLION],
        num_emotions |-> num_emotions,
        sample_size_per_emotion |->
            IF num_emotions > 0
            THEN [num |-> Len(emotion_phrases) * runs * num_voices, den |-> num_emotions]
            ELSE [num |-> 0, den |-> 1]]

(* ------------------------------ state --------------------------------- *)
VARIABLES
    det_transcription,  \* analyzer: argument transcription
    det_emotion,        \* analyzer: argument emotion
    det_result,         \* analyzer: returned value
    det_pc,             \* analyzer: "call" before the call, "done" after it
    results,            \* BenchmarkCollector.results
    summary,            \* value returned by the last get_summary()
    last_call,          \* the collector method called last
    json_file,          \* the file save_results writes
    md_file,            \* the file save_markdown_summary writes
    add_calls,          \* the results passed to add_result so far, one per call
    results_b,          \* a second collector given the same results in another order
    summary_b,          \* value returned by the second collector's get_summary()
    api_key_set,        \* FISH_AUDIO_API_KEY is set
    include_no_reference, \* INCLUDE_NO_REFERENCE is set
    num_runs,           \* NUM_RUNS
    catalog,            \* ALL_EMOTIONS with EMOTION_CATEGORIES
    xdist,              \* the session runs its tests in worker processes
    items,              \* the test items pytest collected, in order
    queue,              \* index of the next test item to run
    wpc,                \* per process: where its session is
    wtest,              \* per process: the test item being run (0: none)
    wrun,               \* per process: the loop variable run of that test
    has_collector,      \* per process: session._benchmark_collector exists
    collector,          \* per process: session._benchmark_collector.results
    workeroutput,       \* per worker: config.workeroutput
    aggregated,         \* controller: aggregated_collector.results
    hook_error,         \* controller: pytest_testnodedown raised
    audio_files,        \* the files written under output/audio
    cost_report,        \* what estimate_cost computed ({} before it ran)
    yaml_file,          \* emotions.yaml, the backing definition of the catalog
    load_pc,            \* catalog: "start", then "loaded" or "raised", then "collected"
    load_error,         \* catalog: the exception _load_emotions raised ("none": none)
    all_emotions,       \* catalog: ALL_EMOTIONS with EMOTION_CATEGORIES after the load
    emotion_phrases,    \* catalog: what get_all_emotions() returned to the parametrization
    audio_combo,        \* audio: the (test item, run) whose file was written (item 0: none)
    audio_file          \* audio: the path that run opened for writing

detVars == <<det_transcription, det_emotion, det_result, det_pc>>

collectorVars == <<results, summary, last_call, json_file, md_file, add_calls>>

orderVars == <<results_b, summary_b>>

configVars == <<api_key_set, include_no_reference, num_runs, catalog, xdist, items>>

sessionVars == <<queue, wpc, wtest, wrun, has_collector, collector, workeroutput, aggregated, hook_error, audio_files>>

driverVars == <<configVars, sessionVars>>

loadVars == <<yaml_file, load_pc, load_error, all_emotions, emotion_phrases>>

audioVars == <<audio_combo, audio_file>>

vars == <<detVars, collectorVars, orderVars, driverVars, cost_report, loadVars, audioVars>>

(* ------------------------- leakage detector --------------------------- *)
DetectIdle ==
    /\ det_transcription = None
    /\ det_emotion = <<>>
    /\ det_result = FALSE
    /\ det_pc = "done"

CallDetect ==
    /\ det_pc = "call"
    /\ det_result' = contains_emotion_tag(det_transcription, det_emotion)
    /\ det_pc' = "done"
    /\ UNCHANGED <<det_transcription, det_emotion>>
    /\ UNCHANGED <<collectorVars, orderVars, driverVars, cost_report, loadVars, audioVars>>

(* --------------------------- collector -------------------------------- *)
\* emotion tags "a", "b", ...
EmotionTag(i) == <<96 + i>>

\* the results the collector is given: emotion and status vary
SampleResult(emotion, status) ==
    BenchmarkResult(emotion, "default", 1, <<104, 105>>, 1, "basic_emotions", status,
                    IF status = "ERROR" THEN None ELSE Str(<<104, 105>>),
                    IF status = "PASS" THEN None ELSE Str(<<33>>))

SampleEmotions == {EmotionTag(1), EmotionTag(2)}

SampleResults == {SampleResult(e, st) : e \in SampleEmotions, st \in Statuses}

CollectorEmpty ==
    /\ results = <<>>
    /\ add_calls = <<>>
    /\ summary = EmptyDict
    /\ last_call = "none"
    /\ json_file = NoFile
    /\ md_file = NoFile

OrderIdle ==
    /\ results_b = <<>>
    /\ summary_b = EmptyDict

\* a result equal to one already collected is dropped
add_result_dedup(r) ==
    /\ results' = IF \E i \in 1..Len(results) : results[i] = r THEN results ELSE Append(results, r)
    /\ add_calls' = Append(add_calls, r)
    /\ last_call' = "add_result"
    /\ UNCHANGED <<summary, json_file, md_file>>
    /\ UNCHANGED <<detVars, orderVars, driverVars, cost_report, loadVars, audioVars>>

add_result(r) ==
    /\ results' = Append(results, r)
    /\ add_calls' = Append(add_calls, r)
    /\ last_call' = "add_result"
    /\ UNCHANGED <<summary, json_file, md_file>>
    /\ UNCHANGED <<detVars, orderVars, driverVars, cost_report, loadVars, audioVars>>

GetSummary ==
    /\ summary' = get_summary(results)
    /\ last_call' = "get_summary"
    /\ UNCHANGED <<results, add_calls, json_file, md_file>>
    /\ UNCHANGED <<detVars, orderVars, driverVars, cost_report, loadVars, audioVars>>

save_results ==
    /\ json_file' = JsonDocument(results)
    /\ last_call' = "save_results"
    /\ UNCHANGED <<results, add_calls, summary, md_file>>
    /\ UNCHANGED <<detVars, orderVars, driverVars, cost_report, loadVars, audioVars>>

\* no early return on an empty collector
save_markdown_summary_always ==
    /\ md_file' = MarkdownDocument(results)
    /\ last_call' = "save_markdown_summary"
    /\ UNCHANGED <<results, add_calls, summary, json_file>>
    /\ UNCHANGED <<detVars, orderVars, driverVars, cost_report, loadVars, audioVars>>

save_markdown_summary ==
    /\ md_file' = IF results = <<>> THEN md_file ELSE MarkdownDocument(results)
    /\ last_call' = "save_markdown_summary"
    /\ UNCHANGED <<results, add_calls, summary, json_file>>
    /\ UNCHANGED <<detVars, orderVars, driverVars, cost_report, loadVars, audioVars>>

\* the second collector's get_summary()
GetSummaryB ==
    /\ summary_b' = get_summary(results_b)
    /\ UNCHANGED results_b
    /\ UNCHANGED <<detVars, collectorVars, driverVars, cost_report, loadVars, audioVars>>

(* ---------------------------- test session ---------------------------- *)
\* the process pytest was started in: it runs the tests itself, or controls
\* the workers
Main == 0

\* the worker processes of a session run with workers
Workers == {1, 2}

Procs == {Main} \cup Workers

\* the processes that run tests
Runners == IF xdist THEN Workers ELSE {Main}

NoOutput == [has_results |-> FALSE, benchmark_results |-> <<>>]

\* the phrase every catalog of a session uses: "hi"
SessionPhrases == {<<104, 105>>}

\* no session
SessionIdle ==
    /\ queue = 1
    /\ wpc = [p \in Procs |-> "finished"]
    /\ wtest = [p \in Procs |-> 0]
    /\ wrun = [p \in Procs |-> 0]
    /\ has_collector = [p \in Procs |-> FALSE]
    /\ collector = [p \in Procs |-> <<>>]
    /\ workeroutput = [p \in Procs |-> NoOutput]
    /\ aggregated = <<>>
    /\ hook_error = FALSE
    /\ audio_files = {}

DriverIdle ==
    /\ api_key_set = FALSE
    /\ include_no_reference = FALSE
    /\ num_runs = 1
    /\ catalog = <<>>
    /\ xdist = FALSE
    /\ items = <<>>
    /\ SessionIdle

\* the session as pytest_sessionstart leaves it: output/ is empty
SessionStart ==
    /\ queue = 1
    /\ wpc = [p \in Procs |->
                IF p = Main THEN (IF xdist THEN "controller" ELSE "idle")
                ELSE (IF xdist THEN "idle" ELSE "absent")]
    /\ wtest = [p \in Procs |-> 0]
    /\ wrun = [p \in Procs |-> 0]
    /\ has_collector = [p \in Procs |-> FALSE]
    /\ collector = [p \in Procs |-> <<>>]
    /\ workeroutput = [p \in Procs |-> NoOutput]
    /\ aggregated = <<>>
    /\ hook_error = FALSE
    /\ audio_files = {}
    /\ json_file = NoFile
    /\ md_file = NoFile

\* a runner takes the next test item: the fish_client fixture skips the test
\* without an API key; otherwise the benchmark_collector fixture exists from
\* the first test on and the test body starts its loop over the runs
StartTest(p) ==
    /\ p \in Runners
    /\ wpc[p] = "idle"
    /\ queue <= Len(items)
    /\ queue' = queue + 1
    /\ IF ~api_key_set
       THEN UNCHANGED <<wpc, wtest, wrun, has_collector>>
       ELSE /\ has_collector' = [has_collector EXCEPT ![p] = TRUE]
            /\ IF num_runs <= 0
               THEN UNCHANGED <<wpc, wtest, wrun>>
               ELSE /\ wpc' = [wpc EXCEPT ![p] = "running"]
                    /\ wtest' = [wtest EXCEPT ![p] = queue]
                    /\ wrun' = [wrun EXCEPT ![p] = 0]
    /\ UNCHANGED <<collector, workeroutput, aggregated, hook_error, audio_files>>
    /\ UNCHANGED <<detVars, collectorVars, orderVars, configVars, cost_report, loadVars, audioVars>>

\* the loop over the runs goes on to the next run, or the test ends
AfterIteration(p) ==
    /\ wrun' = [wrun EXCEPT ![p] = wrun[p] + 1]
    /\ IF wrun[p] + 1 < num_runs
       THEN UNCHANGED <<wpc, wtest>>
       ELSE /\ wpc' = [wpc EXCEPT ![p] = "idle"]
            /\ wtest' = [wtest EXCEPT ![p] = 0]

\* an exception leaves the test function: no result, no further run
RunOnce_uncaught(p) ==
    /\ wpc[p] = "running"
    /\ \E o \in Outcomes(items[wtest[p]].emotion) :
          LET item == items[wtest[p]]
          IN /\ audio_files' =
                   IF o.raises \in {"stt", "none"}
                   THEN audio_files \cup {AudioFile(item, wrun[p], num_runs)}
                   ELSE audio_files
             /\ IF o.raises # "none"
                THEN /\ wpc' = [wpc EXCEPT ![p] = "idle"]
                     /\ wtest' = [wtest EXCEPT ![p] = 0]
                     /\ UNCHANGED <<wrun, collector>>
                ELSE /\ collector' = [collector EXCEPT ![p] =
                                         Append(@, IterationResult(item, wrun[p], o))]
                     /\ AfterIteration(p)
    /\ UNCHANGED <<queue, has_collector, workeroutput, aggregated, hook_error>>
    /\ UNCHANGED <<detVars, collectorVars, orderVars, configVars, cost_report, loadVars, audioVars>>

\* one iteration of the loop over the runs: synthesis, audio file,
\* transcription, leak check, add_result
RunOnce(p) ==
    /\ wpc[p] = "running"
    /\ \E o \in Outcomes(items[wtest[p]].emotion) :
          LET item == items[wtest[p]]
          IN /\ audio_files' =
                   IF o.raises \in {"stt", "none"}
                   THEN audio_files \cup {AudioFile(item, wrun[p], num_runs)}
                   ELSE audio_files
             /\ collector' = [collector EXCEPT ![p] =
                                 Append(@, IterationResult(item, wrun[p], o))]
    /\ AfterIteration(p)
    /\ UNCHANGED <<queue, has_collector, workeroutput, aggregated, hook_error>>
    /\ UNCHANGED <<detVars, collectorVars, orderVars, configVars, cost_report, loadVars, audioVars>>

\* pytest_sessionfinish in a worker: the results go into workeroutput
WorkerSessionFinish(p) ==
    /\ xdist
    /\ p \in Workers
    /\ wpc[p] = "idle"
    /\ queue > Len(items)
    /\ wpc' = [wpc EXCEPT ![p] = "finished"]
    /\ workeroutput' =
          IF has_collector[p] /\ collector[p] # <<>>
          THEN [workeroutput EXCEPT ![p] =
                   [has_results |-> TRUE,
                    benchmark_results |->
                       [i \in 1..Len(collector[p]) |-> WorkerDict(collector[p][i])]]]
          ELSE workeroutput
    /\ UNCHANGED <<queue, wtest, wrun, has_collector, collector, aggregated, hook_error, audio_files>>
    /\ UNCHANGED <<detVars, collectorVars, orderVars, configVars, cost_report, loadVars, audioVars>>

\* pytest_testnodedown in the controller, for a worker that has finished
pytest_testnodedown(p) ==
    /\ xdist
    /\ p \in Workers
    /\ wpc[Main] = "controller"
    /\ wpc[p] = "finished"
    /\ wpc' = [wpc EXCEPT ![p] = "down"]
    /\ IF workeroutput[p].has_results
       THEN /\ aggregated' = aggregated \o AppendedBy(workeroutput[p].benchmark_results)
            /\ hook_error' = (hook_error \/ NodeDownRaises(workeroutput[p].benchmark_results))
       ELSE UNCHANGED <<aggregated, hook_error>>
    /\ UNCHANGED <<queue, wtest, wrun, has_collector, collector, workeroutput, audio_files>>
    /\ UNCHANGED <<detVars, collectorVars, orderVars, configVars, cost_report, loadVars, audioVars>>

\* pytest_sessionfinish in the main process (not a worker): after the last
\* test, or in the controller after the last worker went down or a hook raised
pytest_sessionfinish ==
    /\ IF xdist
       THEN /\ wpc[Main] = "controller"
            /\ hook_error \/ \A p \in Workers : wpc[p] = "down"
       ELSE /\ wpc[Main] = "idle"
            /\ queue > Len(items)
    /\ wpc' = [wpc EXCEPT ![Main] = "finished"]
    /\ IF aggregated # <<>>
       THEN /\ json_file' = JsonDocument(aggregated)
            /\ md_file' = MarkdownDocument(aggregated)
       ELSE IF has_collector[Main] /\ collector[Main] # <<>>
       THEN /\ json_file' = JsonDocument(collector[Main])
            /\ md_file' = MarkdownDocument(collector[Main])
       ELSE UNCHANGED <<json_file, md_file>>
    /\ UNCHANGED <<results, add_calls, summary, last_call>>
    /\ UNCHANGED <<queue, wtest, wrun, has_collector, collector, workeroutput, aggregated, hook_error, audio_files>>
    /\ UNCHANGED <<detVars, orderVars, configVars, cost_report, loadVars, audioVars>>

(* --------------------------- cost estimator --------------------------- *)
\* phrases of 6 and 8 ASCII bytes, and one of 3 characters in 9 bytes
CostPhrases ==
    {<<104, 101, 108, 108, 111, 33>>,
     <<103, 111, 111, 100, 32, 100, 97, 121>>,
     <<233, 8364, 128512>>}

estimate_cost ==
    /\ cost_report = EmptyDict
    /\ cost_report' = CostReport(catalog, get_reference_ids(include_no_reference), num_runs)
    /\ UNCHANGED <<detVars, collectorVars, orderVars, driverVars, loadVars, audioVars>>

(* ---------------------------- catalog load ---------------------------- *)
\* the emotions a definition file names
LoadEmotions == {<<97>>, <<98>>}

\* the mappings emotion -> phrase list a category of the file can hold
CategoryMappings ==
    LET lists == SeqsUpTo(SessionPhrases, MaxPhrases)
    IN {<<>>}
       \cup {<<[emotion |-> e, phrases |-> ps]>> : e \in LoadEmotions, ps \in lists}
       \cup {m \in {<<[emotion |-> e1, phrases |-> p1], [emotion |-> e2, phrases |-> p2]>> :
                       e1 \in LoadEmotions, e2 \in LoadEmotions, p1 \in lists, p2 \in lists} :
               m[1].emotion # m[2].emotion}

\* the keys of the file that the model varies
FileKeys == {"basic_emotions", "advanced_emotions"}

NoData == [k \in FileKeys |-> AbsentKey]

\* the definition files: missing, not YAML, empty, or a mapping
YamlFiles ==
    {[kind |-> k, data |-> NoData] : k \in {"missing", "syntax_error", "null"}}
    \cup {[kind |-> "mapping", data |-> d] :
            d \in [FileKeys -> {AbsentKey, NullKey} \cup {MappingKey(m) : m \in CategoryMappings}]}

LoadIdle ==
    /\ yaml_file = [kind |-> "missing", data |-> NoData]
    /\ load_pc = "raised"
    /\ load_error = "FileNotFoundError"
    /\ all_emotions = <<>>
    /\ emotion_phrases = <<>>

\* the import of emotion_bench.emotions: ALL_EMOTIONS, EMOTION_CATEGORIES =
\* _load_emotions(); an exception ends the import and so the collection
ImportEmotions ==
    /\ load_pc = "start"
    /\ LET r == load_emotions(yaml_file)
       IN /\ load_error' = r.raised
          /\ all_emotions' = r.all_emotions
          /\ load_pc' = IF r.raised = "none" THEN "loaded" ELSE "raised"
    /\ UNCHANGED <<yaml_file, emotion_phrases>>
    /\ UNCHANGED <<detVars, collectorVars, orderVars, driverVars, cost_report, audioVars>>

\* the parametrization of test_emotion_benchmark calls get_all_emotions()
CollectEmotions ==
    /\ load_pc = "loaded"
    /\ emotion_phrases' = get_all_emotions(all_emotions)
    /\ load_pc' = "collected"
    /\ UNCHANGED <<yaml_file, load_error, all_emotions>>
    /\ UNCHANGED <<detVars, collectorVars, orderVars, driverVars, cost_report, audioVars>>

(* ----------------------------- audio files ---------------------------- *)
NoCombo == [k |-> 0, run |-> 0]

AudioIdle ==
    /\ audio_combo = NoCombo
    /\ audio_file = <<>>

\* the catalogs whose audio paths are compared: emotion "a" with up to
\* MaxAudioPhrases phrases and emotion "b" with at most one
AudioCatalogs ==
    {<<[emotion |-> <<97>>, category |-> "basic_emotions",
        phrases |-> [i \in 1..n |-> <<104, 105>>]],
       [emotion |-> <<98>>, category |-> "advanced_emotions",
        phrases |-> [i \in 1..m |-> <<104, 105>>]]>> :
        n \in 0..MaxAudioPhrases, m \in 0..1}

\* one run of one test item opens its audio file for writing
WriteAudio ==
    /\ audio_combo = NoCombo
    /\ \E k \in 1..Len(items), run \in 0..(num_runs - 1) :
          /\ audio_combo' = [k |-> k, run |-> run]
          /\ audio_file' = AudioFile(items[k], run, num_runs)
    /\ UNCHANGED <<detVars, collectorVars, orderVars, driverVars, cost_report, loadVars>>

(* ------------------------- specifications ----------------------------- *)
InitDetect ==
    /\ det_transcription \in {None} \cup {Str(s) : s \in SeqsUpTo(Alphabet, MaxTextLen)}
    /\ det_emotion \in SeqsUpTo(Alphabet, MaxTagLen) \ {<<>>}
    /\ det_result = FALSE
    /\ det_pc = "call"
    /\ CollectorEmpty
    /\ OrderIdle
    /\ DriverIdle
    /\ cost_report = EmptyDict
    /\ LoadIdle
    /\ AudioIdle

NextDetect == CallDetect

SpecDetect == InitDetect /\ [][NextDetect]_vars

\* the collector driven through its whole interface
InitCollector ==
    /\ DetectIdle
    /\ CollectorEmpty
    /\ OrderIdle
    /\ DriverIdle
    /\ cost_report = EmptyDict
    /\ LoadIdle
    /\ AudioIdle

NextCollector ==
    \/ \E r \in SampleResults : Len(add_calls) < MaxAdds /\ add_result(r)
    \/ GetSummary
    \/ save_results
    \/ save_markdown_summary

SpecCollector == InitCollector /\ [][NextCollector]_vars

\* results are collected, then summarised once; a new emotion is always the
\* next unused tag (the collector compares emotions for equality only)
InitSummary ==
    /\ DetectIdle
    /\ CollectorEmpty
    /\ OrderIdle
    /\ DriverIdle
    /\ cost_report = EmptyDict
    /\ LoadIdle
    /\ AudioIdle

CollectRanked ==
    /\ last_call # "get_summary"
    /\ Len(results) < MaxRanked
    /\ \E k \in 1..(Len(EmotionOrder(results)) + 1), st \in Statuses :
          add_result(SampleResult(EmotionTag(k), st))

NextSummary == CollectRanked \/ GetSummary

SpecSummary == InitSummary /\ [][NextSummary]_vars

\* the same results appended to two collectors in different orders
Permuted(rs, p) == [i \in 1..Len(rs) |-> rs[p[i]]]

InitOrder ==
    /\ DetectIdle
    /\ results \in SeqsUpTo(SampleResults, MaxShuffled)
    /\ add_calls = results
    /\ results_b \in {Permuted(results, p) : p \in Permutations(1..Len(results))}
    /\ summary = EmptyDict
    /\ summary_b = EmptyDict
    /\ last_call = "none"
    /\ json_file = NoFile
    /\ md_file = NoFile
    /\ DriverIdle
    /\ cost_report = EmptyDict
    /\ LoadIdle
    /\ AudioIdle

NextOrder == GetSummary \/ GetSummaryB

SpecOrder == InitOrder /\ [][NextOrder]_vars

\* a whole test session, in one process or with workers
Init ==
    /\ DetectIdle
    /\ OrderIdle
    /\ results = <<>>
    /\ add_calls = <<>>
    /\ summary = EmptyDict
    /\ last_call = "none"
    /\ cost_report = EmptyDict
    /\ LoadIdle
    /\ AudioIdle
    /\ api_key_set \in BOOLEAN
    /\ include_no_reference \in BOOLEAN
    /\ num_runs \in 0..MaxRuns
    /\ catalog \in Catalogs(SessionPhrases, MaxPhrases)
    /\ xdist \in BOOLEAN
    /\ items = TestItems(catalog, get_reference_ids(include_no_reference))
    /\ Len(items) * num_runs <= MaxSessionRuns
    /\ SessionStart

Next ==
    \/ \E p \in Procs : StartTest(p)
    \/ \E p \in Procs : RunOnce(p)
    \/ \E p \in Procs : WorkerSessionFinish(p)
    \/ \E p \in Procs : pytest_testnodedown(p)
    \/ pytest_sessionfinish

Spec == Init /\ [][Next]_vars

\* the cost estimator run on a catalog, a roster and a run count
InitCost ==
    /\ DetectIdle
    /\ CollectorEmpty
    /\ OrderIdle
    /\ SessionIdle
    /\ api_key_set = FALSE
    /\ xdist = FALSE
    /\ items = <<>>
    /\ include_no_reference \in BOOLEAN
    /\ num_runs \in 0..MaxRuns
    /\ catalog \in Catalogs(CostPhrases, MaxPhrases)
    /\ cost_report = EmptyDict
    /\ LoadIdle
    /\ AudioIdle

NextCost == estimate_cost

SpecCost == InitCost /\ [][NextCost]_vars

\* the catalog loaded from a definition file, then flattened
InitLoad ==
    /\ DetectIdle
    /\ CollectorEmpty
    /\ OrderIdle
    /\ DriverIdle
    /\ cost_report = EmptyDict
    /\ yaml_file \in YamlFiles
    /\ load_pc = "start"
    /\ load_error = "none"
    /\ all_emotions = <<>>
    /\ emotion_phrases = <<>>
    /\ AudioIdle

NextLoad == ImportEmotions \/ CollectEmotions

SpecLoad == InitLoad /\ [][NextLoad]_vars

\* the audio path of any one run of a session
InitAudio ==
    /\ DetectIdle
    /\ CollectorEmpty
    /\ OrderIdle
    /\ SessionIdle
    /\ api_key_set = TRUE
    /\ xdist = FALSE
    /\ include_no_reference \in BOOLEAN
    /\ num_runs \in 0..MaxAudioRuns
    /\ catalog \in AudioCatalogs
    /\ items = TestItems(catalog, get_reference_ids(include_no_reference))
    /\ cost_report = EmptyDict
    /\ LoadIdle
    /\ AudioIdle

NextAudio == WriteAudio

SpecAudio == InitAudio /\ [][NextAudio]_vars

(* ------------------------------ claims -------------------------------- *)
\* C6 as stated: false on an empty or absent transcription; otherwise true
\* exactly when, ignoring case, the text contains "(E)" or contains E with
\* no word character directly before or after the occurrence.
ClaimedDetect(t, e) ==
    /\ ~t.is_none
    /\ t.text # <<>>
    /\ \/ Contains(Lower(t.text), Parenthesized(Lower(e)))
       \/ \E p \in 0..Len(t.text) :
            /\ OccursAt(Lower(t.text), Lower(e), p)
            /\ ~(p >= 1 /\ IsWordChar(Lower(t.text)[p]))
            /\ ~(p + Len(e) < Len(t.text) /\ IsWordChar(Lower(t.text)[p + Len(e) + 1]))

\* C6: after the call the result equals the claimed characterisation
C6_DetectMatchesClaim ==
    det_pc = "done" => det_result = ClaimedDetect(det_transcription, det_emotion)

\* ---- summaries of the same results in two orders (SpecOrder) ----
Returned(sm) == DOMAIN sm # {}

BothReturned == Returned(summary) /\ Returned(summary_b)

\* the success_rate column of a best/worst list
RatesOf(list) == [i \in 1..Len(list) |-> list[i].success_rate]

\* per-emotion success rates as a set of (emotion, rate) pairs
RateMap(rs) ==
    {<<e, RoundRate(EmotionStats(rs, e).pass,
                    EmotionStats(rs, e).pass + EmotionStats(rs, e).fail
                      + EmotionStats(rs, e).error)>> :
        e \in {rs[i].emotion : i \in 1..Len(rs)}}

DistinctRates(rs) ==
    \A x, y \in RateMap(rs) : x[2] = y[2] => x = y

\* C4 as stated: two orders of appending the same results give summaries
\* that are equal in full, best_emotions and worst_emotions included
C4_SummariesIdentical == BothReturned => summary = summary_b

\* C4 amended: the two summaries agree on the totals, the counts, the overall
\* success rate and the sequence of rates in best_emotions and worst_emotions;
\* they are equal in full when no two emotions have the same rate
C4_SummariesAgreeUpToTies ==
    BothReturned =>
        /\ summary.total_tests = summary_b.total_tests
        /\ summary.pass_count = summary_b.pass_count
        /\ summary.fail_count = summary_b.fail_count
        /\ summary.error_count = summary_b.error_count
        /\ summary.success_rate = summary_b.success_rate
        /\ RatesOf(summary.best_emotions) = RatesOf(summary_b.best_emotions)
        /\ RatesOf(summary.worst_emotions) = RatesOf(summary_b.worst_emotions)
        /\ DistinctRates(results) => summary = summary_b

\* two emotions tie and the two orders see them first in opposite order
C4_Witness ==
    /\ BothReturned
    /\ Len(summary.best_emotions) >= 2
    /\ summary.best_emotions # summary_b.best_emotions

\* C5: for a permutation of the same results, total_tests, pass_count,
\* fail_count, error_count, success_rate and every emotion's success rate
\* are equal
C5_AggregatesOrderIndependent ==
    BothReturned =>
        /\ summary.total_tests = summary_b.total_tests
        /\ summary.pass_count = summary_b.pass_count
        /\ summary.fail_count = summary_b.fail_count
        /\ summary.error_count = summary_b.error_count
        /\ summary.success_rate = summary_b.success_rate
        /\ summary.total_tests = Len(results)
        /\ summary.pass_count + summary.fail_count + summary.error_count = Len(results_b)
        /\ {EmotionSuccessRates(results)[i] : i \in 1..Len(EmotionSuccessRates(results))}
             = {EmotionSuccessRates(results_b)[i] : i \in 1..Len(EmotionSuccessRates(results_b))}
        /\ RateMap(results) = RateMap(results_b)

\* a real shuffle: the two lists differ and hold all three statuses
C5_Witness ==
    /\ BothReturned
    /\ results # results_b
    /\ summary.pass_count = 1 /\ summary.fail_count = 1 /\ summary.error_count = 1

\* ---- ranking (SpecSummary) ----
EmotionsIn(rs) == {rs[i].emotion : i \in 1..Len(rs)}

FirstSeen(rs, e) == CHOOSE i \in 1..Len(rs) :
    rs[i].emotion = e /\ \A j \in 1..(i - 1) : rs[j].emotion # e

PassOf(rs, e) == Cardinality({i \in 1..Len(rs) : rs[i].emotion = e /\ rs[i].status = "PASS"})

TotalOf(rs, e) == Cardinality({i \in 1..Len(rs) : rs[i].emotion = e})

\* emotion x has a strictly higher success rate than emotion y
Higher(rs, x, y) == PassOf(rs, x) * TotalOf(rs, y) > PassOf(rs, y) * TotalOf(rs, x)

SameRate(rs, x, y) == PassOf(rs, x) * TotalOf(rs, y) = PassOf(rs, y) * TotalOf(rs, x)

\* x is ranked before y in best_emotions / worst_emotions
BestBefore(rs, x, y) ==
    Higher(rs, x, y) \/ (SameRate(rs, x, y) /\ FirstSeen(rs, x) < FirstSeen(rs, y))

WorstBefore(rs, x, y) ==
    Higher(rs, y, x) \/ (SameRate(rs, x, y) /\ FirstSeen(rs, x) < FirstSeen(rs, y))

MinOf(a, b) == IF a < b THEN a ELSE b

\* list is the first min(5, #emotions) emotions in the order Before, each
\* with its rate pass / total x 100 rounded to two places
RankedBy(rs, list, Before(_, _, _)) ==
    /\ Len(list) = MinOf(TopN, Cardinality(EmotionsIn(rs)))
    /\ \A i \in 1..Len(list) :
          /\ list[i].emotion \in EmotionsIn(rs)
          /\ list[i].success_rate
               = RoundRate(PassOf(rs, list[i].emotion), TotalOf(rs, list[i].emotion))
    /\ \A i, j \in 1..Len(list) :
          i < j => Before(rs, list[i].emotion, list[j].emotion)
    /\ \A e \in EmotionsIn(rs) :
          (\A i \in 1..Len(list) : list[i].emotion # e)
             => \A i \in 1..Len(list) : Before(rs, list[i].emotion, e)

\* C8: best_emotions is the (at most 5) highest-rate emotions in descending
\* order, worst_emotions the (at most 5) lowest in ascending order, equal
\* rates in first-seen order
C8_BestWorstRanked ==
    (last_call = "get_summary" /\ results # <<>>) =>
        /\ RankedBy(results, summary.best_emotions, BestBefore)
        /\ RankedBy(results, summary.worst_emotions, WorstBefore)

\* more than five emotions, a tie inside the list and a tie across the cut
C8_Witness ==
    /\ last_call = "get_summary"
    /\ Cardinality(EmotionsIn(results)) > TopN
    /\ summary.best_emotions[1].success_rate = summary.best_emotions[2].success_rate
    /\ summary.best_emotions[1].success_rate > summary.best_emotions[TopN].success_rate
    /\ summary.worst_emotions[TopN].success_rate = summary.worst_emotions[TopN - 1].success_rate

\* ---- empty collector (SpecCollector) ----
\* C9: with zero results get_summary returns an empty mapping,
\* save_markdown_summary leaves no file, and save_results writes a file with
\* an empty results array and an empty summary mapping
C9_EmptyCollector ==
    results = <<>> =>
        /\ last_call = "get_summary" => summary = EmptyDict
        /\ ~md_file.exists
        /\ last_call = "save_results" =>
              /\ json_file.exists
              /\ json_file.results = <<>>
              /\ DOMAIN json_file.summary = {}

\* all three have been called on the empty collector, the markdown one last
C9_Witness ==
    /\ results = <<>>
    /\ last_call = "save_markdown_summary"
    /\ json_file.exists

\* ---- test session (Spec) ----
Roster == get_reference_ids(include_no_reference)

\* every test has been handed out and no test body is still running
TestsDone == queue > Len(items) /\ \A p \in Runners : wpc[p] # "running"

\* the results of the collectors of the processes in S, one list
RECURSIVE ResultsOf(_)
ResultsOf(S) ==
    IF S = {} THEN <<>>
    ELSE LET p == CHOOSE x \in S : \A y \in S : x <= y
         IN collector[p] \o ResultsOf(S \ {p})

\* the positions in list that hold the result of run r of test item k
RecordedAt(list, k, r) ==
    {i \in 1..Len(list) :
        /\ list[i].emotion = items[k].emotion
        /\ list[i].phrase_idx = items[k].phrase_idx
        /\ list[i].voice = VoiceLabel(items[k].reference_id)
        /\ list[i].run_number = r}

\* all results the session collectors hold
Recorded == LET all == ResultsOf(Procs) IN {all[i] : i \in 1..Len(all)}

\* C1: every run of every test case appends exactly one result, also when
\* an adapter raises (that run is an ERROR and the later runs and tests still
\* run), so that a session whose tests have all run holds
\* (catalog phrases) x (roster size) x (runs) results
C1_OneResultPerRun ==
    LET all == ResultsOf(Procs)
    IN /\ \A k \in 1..Len(items), r \in 1..num_runs :
             Cardinality(RecordedAt(all, k, r)) <= 1
       /\ \A i \in 1..Len(all) :
             all[i].error = Str(ExceptionText("tts")) => all[i].status = "ERROR"
       /\ (api_key_set /\ TestsDone) =>
             /\ \A k \in 1..Len(items), r \in 1..num_runs :
                   Cardinality(RecordedAt(all, k, r)) = 1
             /\ Len(all) = Len(get_all_emotions(catalog)) * Len(Roster) * num_runs

\* all tests have run; one test's first run raised and its second run passed,
\* and a later test case recorded a result too
C1_Witness ==
    /\ TestsDone
    /\ num_runs > 1
    /\ \E p \in Procs : \E i, j, l \in 1..Len(collector[p]) :
          /\ i < j /\ j < l
          /\ collector[p][i].status = "ERROR"
          /\ collector[p][j].status = "PASS"
          /\ collector[p][i].emotion = collector[p][j].emotion
          /\ collector[p][j].run_number = collector[p][i].run_number + 1
          /\ collector[p][l].emotion # collector[p][i].emotion

\* C2: every recorded result is PASS, FAIL or ERROR; ERROR has no
\* transcription and an error; PASS has a transcription and no error; FAIL
\* has a transcription and an error that contains it
C2_StatusDiscipline ==
    \A x \in Recorded :
        /\ x.status \in Statuses
        /\ x.status = "ERROR" => (x.transcription.is_none /\ ~x.error.is_none)
        /\ x.status = "PASS" => (~x.transcription.is_none /\ x.error.is_none)
        /\ x.status = "FAIL" =>
              /\ ~x.transcription.is_none
              /\ ~x.error.is_none
              /\ Contains(x.error.text, x.transcription.text)

\* number of occurrences of x in a list
Occurrences(list, x) == Cardinality({i \in 1..Len(list) : list[i] = x})

AllWorkersDown == xdist /\ \A p \in Workers : wpc[p] = "down"

\* C3: once every worker is down the aggregated collector holds each result
\* of each worker exactly once, all nine fields unchanged, and nothing else
C3_AggregatedIsUnionOfWorkers ==
    AllWorkersDown =>
        /\ Len(aggregated) = Len(ResultsOf(Workers))
        /\ \A x \in Recorded : Occurrences(aggregated, x) = Occurrences(ResultsOf(Workers), x)

\* C7: when the session has finished and a result was recorded, both report
\* files exist and no hook raised, with or without workers
C7_ReportsWritten ==
    (wpc[Main] = "finished" /\ Recorded # {}) =>
        /\ json_file.exists
        /\ md_file.exists
        /\ ~hook_error

\* ---- cost estimator (SpecCost) ----
\* UTF-8 length of "(emotion) phrase": two parentheses, a space, and the
\* encoded emotion and phrase
EncodedBytes(c) == IF c <= 127 THEN 1 ELSE IF c <= 2047 THEN 2 ELSE IF c <= 65535 THEN 3 ELSE 4

RECURSIVE SumEncoded(_, _)
SumEncoded(s, n) == IF n = 0 THEN 0 ELSE EncodedBytes(s[n]) + SumEncoded(s, n - 1)

RequestBytes(emotion, phrase) ==
    3 + SumEncoded(emotion, Len(emotion)) + SumEncoded(phrase, Len(phrase))

RECURSIVE CatalogBytes(_, _, _)
CatalogBytes(cat, e, i) ==
    IF e = 0 THEN 0
    ELSE IF i = 0 THEN CatalogBytes(cat, e - 1, IF e > 1 THEN Len(cat[e - 1].phrases) ELSE 0)
    ELSE RequestBytes(cat[e].emotion, cat[e].phrases[i]) + CatalogBytes(cat, e, i - 1)

RECURSIVE CatalogPhrases(_, _)
CatalogPhrases(cat, e) ==
    IF e = 0 THEN 0 ELSE Len(cat[e].phrases) + CatalogPhrases(cat, e - 1)

\* C10: total API calls = phrases x roster size x runs, and the cost is
\* (sum of the UTF-8 lengths of "(emotion) phrase") x roster size x runs
\* / 1,000,000 x 15
C10_CostFormula ==
    Returned(cost_report) =>
        LET bytes == CatalogBytes(catalog, Len(catalog), Len(catalog[Len(catalog)].phrases))
            roster == IF include_no_reference THEN 1 ELSE Len(REFERENCE_IDS)
        IN /\ cost_report.total_bytes = bytes
           /\ cost_report.total_api_calls
                = CatalogPhrases(catalog, Len(catalog)) * roster * num_runs
           /\ cost_report.estimated_cost.num = bytes * roster * num_runs * 15
           /\ cost_report.estimated_cost.den = 1000000

\* the example: texts of 10 and 12 bytes, one voice, one run
C10_Witness ==
    /\ Returned(cost_report)
    /\ include_no_reference
    /\ num_runs = 1
    /\ cost_report.total_bytes = 22
    /\ cost_report.total_api_calls = 2
    /\ cost_report.estimated_cost = [num |-> 330, den |-> 1000000]

(* C11: loading the catalog fails, before any test case is collected, when
   the definition is missing or malformed or when some tag has an empty
   phrase list; so every entry of a loaded catalog has a non-empty phrase
   list and contributes at least one tuple to get_all_emotions. *)
HasEmptyPhraseList(file) ==
    /\ file.kind = "mapping"
    /\ \E k \in DOMAIN file.data :
          \E i \in 1..Len(file.data[k].entries) : file.data[k].entries[i].phrases = <<>>

Malformed(file) ==
    \/ file.kind \in {"syntax_error", "null"}
    \/ /\ file.kind = "mapping"
       /\ \E k \in DOMAIN file.data : file.data[k].kind = "null"

TuplesOf(emotion) ==
    {i \in 1..Len(emotion_phrases) : emotion_phrases[i].emotion = emotion}

C11_LoadRejectsBadCatalog ==
    /\ (load_pc # "start"
        /\ (yaml_file.kind = "missing" \/ Malformed(yaml_file) \/ HasEmptyPhraseList(yaml_file)))
       => (load_pc = "raised" /\ load_error # "none" /\ emotion_phrases = <<>>)
    /\ load_pc \in {"loaded", "collected"}
       => \A i \in 1..Len(all_emotions) : all_emotions[i].phrases # <<>>
    /\ load_pc = "collected"
       => \A i \in 1..Len(all_emotions) : TuplesOf(all_emotions[i].emotion) # {}

(* C12: two different (emotion, phrase index, voice, run number)
   combinations of one session never map to the same audio path: the file a
   run writes is the file of no other combination of the session. *)
C12_AudioPathsDistinct ==
    audio_combo # NoCombo =>
        \A k \in 1..Len(items), run \in 0..(num_runs - 1) :
            [k |-> k, run |-> run] # audio_combo
                => AudioFile(items[k], run, num_runs) # audio_file

\* the 11th phrase in its 2nd run, with three voices and two emotions
C12_Witness ==
    /\ audio_combo # NoCombo
    /\ ~include_no_reference
    /\ num_runs > 2
    /\ Len(catalog[2].phrases) = 1
    /\ items[audio_combo.k].phrase_idx = 11
    /\ audio_combo.run = 1

(* C13 as stated: the result list is exactly the results passed to
   add_result, in call order, and a summary just returned by get_summary
   reports total_tests equal to the number of add_result calls, with
   pass_count + fail_count + error_count = total_tests. *)
C13_AppendOnlyTotalTests ==
    /\ results = add_calls
    /\ last_call = "get_summary" =>
          /\ Returned(summary)
          /\ summary.total_tests = Len(add_calls)
          /\ summary.pass_count + summary.fail_count + summary.error_count
                = summary.total_tests

(* C13, amended: the same, except that before the first add_result call
   get_summary returns the empty summary, which has no total_tests. *)
C13_AppendOnlyFreshSummary ==
    /\ results = add_calls
    /\ last_call = "get_summary" =>
          IF add_calls = <<>>
          THEN summary = EmptyDict
          ELSE /\ Returned(summary)
               /\ summary.total_tests = Len(add_calls)
               /\ summary.pass_count + summary.fail_count + summary.error_count
                     = summary.total_tests

\* the same result added twice and a third one, then summarised, both files
\* having been written before
C13_Witness ==
    /\ Len(add_calls) = 3
    /\ add_calls[1] = add_calls[2]
    /\ add_calls[3].status # add_calls[1].status
    /\ last_call = "get_summary"
    /\ json_file.exists
    /\ md_file.exists

=============================================================================
